---- MODULE Spec2Model ----
(***************************************************************************)
(* Urban-planning simulator backend: the FastAPI handlers of app.py and    *)
(* the orchestration of simulation_engine.py.                              *)
(*                                                                         *)
(* Encodings                                                               *)
(*   - a Python str that the code transforms (the infrastructure-type      *)
(*     label) is a sequence of one-character strings, so that lower(),     *)
(*     replace() and title() are computed character by character;          *)
(*   - the float deltas of the numeric table are held in tenths            *)
(*     (15.2 is 152, 12.50 is 125), coordinates in 1e-4 degrees;           *)
(*   - a ward's geometry is one cell of a line of cells, a request         *)
(*     geometry is a set of cells (cell 0 lies outside every ward) and     *)
(*     "intersects" is "shares a cell";                                    *)
(*   - a cell of an attribute column is a tagged value: null, a number,    *)
(*     the text of a number ("300"), a percent text ("10%") or a           *)
(*     non-numeric text ("n/a").  A column read by gpd.read_file has one   *)
(*     dtype: it never holds numbers and texts together.                   *)
(***************************************************************************)
EXTENDS Integers, Sequences, FiniteSets, TLC

VARIABLES
    geodata_gdf,          \* app.state.geodata_gdf
    startup,              \* how startup_event ended ("pending" before it ran)
    GROQ_API_KEY,         \* is the credential set in the environment
    request,              \* the request served last
    llm_reply,            \* what the external service answered to it, if asked
    response,             \* the HTTP response to it
    calls,                \* the pipeline steps that ran for it
    numeric_predictions   \* the NumericPrediction computed for it

vars == <<geodata_gdf, startup, GROQ_API_KEY, request, llm_reply, response,
          calls, numeric_predictions>>

\* ------------------------------------------------------------------ bounds
MaxWards == 2

\* ------------------------------------------------------------- Python str
LowerCase == <<"a","b","c","d","e","f","g","h","i","j","k","l","m",
               "n","o","p","q","r","s","t","u","v","w","x","y","z">>
UpperCase == <<"A","B","C","D","E","F","G","H","I","J","K","L","M",
               "N","O","P","Q","R","S","T","U","V","W","X","Y","Z">>

IsLower(c) == \E i \in 1..26 : LowerCase[i] = c
IsUpper(c) == \E i \in 1..26 : UpperCase[i] = c
IsCased(c) == IsLower(c) \/ IsUpper(c)
ToLower(c) == IF IsUpper(c) THEN LowerCase[CHOOSE i \in 1..26 : UpperCase[i] = c] ELSE c
ToUpper(c) == IF IsLower(c) THEN UpperCase[CHOOSE i \in 1..26 : LowerCase[i] = c] ELSE c

\* str.lower()
lower(s) == [i \in 1..Len(s) |-> ToLower(s[i])]
\* str.upper()
upper(s) == [i \in 1..Len(s) |-> ToUpper(s[i])]
\* str.replace(old, new) for one-character old and new
replace(s, old, new) == [i \in 1..Len(s) |-> IF s[i] = old THEN new ELSE s[i]]
\* str.title(): a cased character is upper-cased when the character before it
\* is not cased, lower-cased otherwise; uncased characters are kept
title(s) ==
    [i \in 1..Len(s) |->
        IF ~IsCased(s[i]) THEN s[i]
        ELSE IF i > 1 /\ IsCased(s[i-1]) THEN ToLower(s[i]) ELSE ToUpper(s[i])]

\* The labels the requests are drawn from.
road_ground  == <<"r","o","a","d","_","g","r","o","u","n","d">>
road_flyover == <<"r","o","a","d","_","f","l","y","o","v","e","r">>
road_tunnel  == <<"r","o","a","d","_","t","u","n","n","e","l">>
mall         == <<"m","a","l","l">>
school       == <<"s","c","h","o","o","l">>
hospital     == <<"h","o","s","p","i","t","a","l">>
park         == <<"p","a","r","k">>
metro        == <<"m","e","t","r","o">>
Park         == <<"P","a","r","k">>
ROAD_FLYOVER == <<"R","O","A","D","_","F","L","Y","O","V","E","R">>

DefinedTypes == {road_ground, road_flyover, road_tunnel, mall, school, hospital, park}
Labels == DefinedTypes \cup {metro, Park, ROAD_FLYOVER}

\* ------------------------------------------------------- attribute cells
Null   == [t |-> "null", v |-> 0]
Num(n) == [t |-> "num", v |-> n]     \* a number
Txt(n) == [t |-> "txt", v |-> n]     \* the text of the number n
Pct(n) == [t |-> "pct", v |-> n]     \* the text of n followed by "%"
Bad    == [t |-> "bad", v |-> 0]     \* a text that is no number
NaN    == [t |-> "nan", v |-> 0]     \* float NaN

IsText(x) == x.t \in {"txt", "pct", "bad"}

\* pd.to_numeric(..., errors='coerce') on one cell
to_numeric(x) ==
    CASE x.t = "num" -> x
      [] x.t = "txt" -> Num(x.v)
      [] OTHER       -> NaN

\* Series.fillna(d) on one cell
fillna(x, d) == IF x.t = "nan" THEN Num(d) ELSE x

\* Series.str.rstrip('%') on one cell: texts lose their trailing percent
\* signs, every other cell becomes NaN
rstrip_percent(x) ==
    CASE x.t = "pct" -> Txt(x.v)
      [] x.t \in {"txt", "bad"} -> x
      [] OTHER -> NaN

\* The .str accessor exists on text (object) columns only: a column of numbers
\* raises AttributeError.  A column of nulls alone is an object column.
str_accessor_raises(col) == \E i \in 1..Len(col) : col[i].t = "num"

Column(wards, attr) == [i \in 1..Len(wards) |-> wards[i][attr]]

\* Series.idxmax(): the first position of the greatest value (the column is
\* numeric and has no NaN when the code calls it)
idxmax(col) ==
    CHOOSE i \in 1..Len(col) :
        /\ \A j \in 1..Len(col) : col[j].v <= col[i].v
        /\ \A j \in 1..(i-1) : col[j].v < col[i].v

\* Series.idxmin(): the first position of the least value
idxmin(col) ==
    CHOOSE i \in 1..Len(col) :
        /\ \A j \in 1..Len(col) : col[j].v >= col[i].v
        /\ \A j \in 1..(i-1) : col[j].v > col[i].v

\* ------------------------------------------------------------ wards, frames
WardNames == <<"W1", "W2", "W3", "W4">>

\* Ward i lies on cell i.
Ward(i, p, g, s) ==
    [name |-> WardNames[i], cell |-> i, pop |-> p, gdp |-> g, green |-> s]

\* A GeoDataFrame: cols says whether the attribute columns exist (a file whose
\* features carry no such property, or no feature at all, gives none of them).
NoneGdf == [is_none |-> TRUE, cols |-> FALSE, wards |-> <<>>]
Frame(c, w) == [is_none |-> FALSE, cols |-> c, wards |-> w]

\* geometry.centroid of a ward, in 1e-4 degrees
centroid(w) == [y |-> 170000 + w.cell, x |-> 830000 + w.cell]

DefaultLatitude  == 176868
DefaultLongitude == 832185
GreenSpaceFill   == 100

\* ------------------------------------------------- run_pytorch_predictions
base_predictions ==
    [predicted_aqi_change |-> 0, predicted_heat_index_change |-> 0,
     predicted_urban_vegetation_change_percent |-> 0,
     predicted_traffic_density_change_percent |-> 0,
     predicted_light_vehicle_change_percent |-> 0,
     predicted_medium_vehicle_change_percent |-> 0,
     predicted_heavy_vehicle_change_percent |-> 0,
     predicted_total_population_change |-> 0,
     predicted_gdp_change_crore |-> 0]

\* Deltas in tenths; wards_data is not read.
run_pytorch_predictions_baseline(wards_data, infrastructure_type) == base_predictions
run_pytorch_predictions(wards_data, infrastructure_type) ==
    CASE infrastructure_type = road_ground ->
           [base_predictions EXCEPT
              !.predicted_aqi_change = 152,
              !.predicted_traffic_density_change_percent = 550,
              !.predicted_medium_vehicle_change_percent = 400,
              !.predicted_heavy_vehicle_change_percent = 150,
              !.predicted_urban_vegetation_change_percent = -180,
              !.predicted_heat_index_change = 18]
      [] infrastructure_type \in {road_flyover, road_tunnel} ->
           [base_predictions EXCEPT
              !.predicted_aqi_change = 85,
              !.predicted_traffic_density_change_percent = 300,
              !.predicted_medium_vehicle_change_percent = 250,
              !.predicted_urban_vegetation_change_percent = -50,
              !.predicted_heat_index_change = 5]
      [] infrastructure_type = mall ->
           [base_predictions EXCEPT
              !.predicted_aqi_change = 57,
              !.predicted_traffic_density_change_percent = 425,
              !.predicted_medium_vehicle_change_percent = 500,
              !.predicted_gdp_change_crore = 125,
              !.predicted_heat_index_change = 25,
              !.predicted_urban_vegetation_change_percent = -50]
      [] infrastructure_type = school ->
           [base_predictions EXCEPT
              !.predicted_aqi_change = 15,
              !.predicted_traffic_density_change_percent = 180,
              !.predicted_medium_vehicle_change_percent = 200,
              !.predicted_heat_index_change = 5,
              !.predicted_total_population_change = 5000,
              !.predicted_urban_vegetation_change_percent = -20]
      [] infrastructure_type = hospital ->
           [base_predictions EXCEPT
              !.predicted_aqi_change = 21,
              !.predicted_traffic_density_change_percent = 150,
              !.predicted_medium_vehicle_change_percent = 150,
              !.predicted_heavy_vehicle_change_percent = 50,
              !.predicted_heat_index_change = 8,
              !.predicted_urban_vegetation_change_percent = -30]
      [] infrastructure_type = park ->
           [base_predictions EXCEPT
              !.predicted_aqi_change = -120,
              !.predicted_traffic_density_change_percent = -80,
              !.predicted_heat_index_change = -25,
              !.predicted_urban_vegetation_change_percent = 250,
              !.predicted_total_population_change = 500]
      [] OTHER -> base_predictions

\* ---------------------------------------------------- _prepare_llm_context
RECURSIVE SumCells(_, _)
\* Series.sum() of a numeric column: nulls are skipped
SumCells(col, n) ==
    IF n = 0 THEN 0
    ELSE SumCells(col, n - 1) + (IF col[n].t = "num" THEN col[n].v ELSE 0)

CountCells(col) == Cardinality({i \in 1..Len(col) : col[i].t = "num"})

\* The context is kept as its parts, not as text.  It raises (nothing in the
\* pipeline catches it) when the columns do not exist (KeyError) and when a
\* column holds a non-numeric text: int() of the summed texts, or the mean of
\* a text column, fails.  The frames a server loads hold no number-texts in
\* these two columns.
_prepare_llm_context(wards_data, predictions, infra_type) ==
    LET pop == Column(wards_data.wards, "pop")
        gdp == Column(wards_data.wards, "gdp")
        raised == \/ ~wards_data.cols
                  \/ \E i \in 1..Len(pop) : IsText(pop[i]) \/ IsText(gdp[i])
    IN  IF raised
        THEN [raised |-> TRUE, n_wards |-> 0, total_pop |-> 0, avg_gdp |-> NaN,
              lines |-> {}, note |-> "none"]
        ELSE [raised |-> FALSE,
              n_wards |-> Len(wards_data.wards),
              total_pop |-> SumCells(pop, Len(pop)),
              avg_gdp |-> IF CountCells(gdp) = 0 THEN NaN
                          ELSE Num((100 * SumCells(gdp, Len(gdp))) \div CountCells(gdp)),
              lines |-> {k \in DOMAIN predictions : predictions[k] # 0},
              note |-> CASE infra_type = road_flyover -> "flyover"
                         [] infra_type = road_tunnel -> "tunnel"
                         [] OTHER -> "none"]

\* ------------------------------------------------ _create_generative_prompt
_create_generative_prompt(context, infrastructure_type) ==
    [context |-> context, action |-> upper(infrastructure_type),
     schema |-> "SimulationReport"]

\* ------------------------------------------------------------ JSON values
\* A parsed JSON value: an object is a record over its keys; the other kinds
\* carry no content here.
EmptyObject == [k \in {} |-> ""]
Object(o) == [kind |-> "object", obj |-> o]
JsonNumber == [kind |-> "number", obj |-> EmptyObject]
JsonArray  == [kind |-> "array", obj |-> EmptyObject]

\* d[k] = v on a dict
SetItem(o, k, v) == [f \in DOMAIN o \cup {k} |-> IF f = k THEN v ELSE o[f]]

ErrorEnvelope(m) == Object([status |-> "error", message |-> m])
NoImpact ==
    Object([status |-> "no_impact",
            message |-> "The new infrastructure is outside of any known ward."])

\* What the external service can do with one request: fail (network or
\* service error), or answer a completion whose content is some text.
LlmLabel == <<"r","o","a","d"," ","f","l","y","o","v","e","r">>
ServiceContents ==
    { JsonNumber, JsonArray,
      Object(EmptyObject),
      Object([status |-> "success"]),
      Object([status |-> "success", summary_narrative |-> "narrative"]),
      Object([status |-> "success", infrastructure_type |-> LlmLabel,
              summary_narrative |-> "narrative"]),
      Object([infrastructure_type |-> LlmLabel, summary_narrative |-> "narrative"]),
      Object([summary_narrative |-> "narrative"]),
      Object([status |-> "error", message |-> "model refused"]) }
NoReply == [net |-> "none", json |-> FALSE, value |-> JsonNumber]
ServiceReplies ==
    { [net |-> "error", json |-> FALSE, value |-> JsonNumber],
      [net |-> "ok", json |-> FALSE, value |-> JsonNumber] }
    \cup { [net |-> "ok", json |-> TRUE, value |-> c] : c \in ServiceContents }

\* ----------------------------------------------------------- _query_llm_api
\* key: os.getenv("GROQ_API_KEY") is set; reply: what the service does when
\* asked.  network says whether the request was sent.
_query_llm_api(prompt, key, reply) ==
    IF ~key
    THEN [network |-> FALSE,
          value |-> ErrorEnvelope("API key is not configured on the server.")]
    ELSE IF reply.net # "ok" \/ ~reply.json
    THEN [network |-> TRUE,
          value |-> ErrorEnvelope("An error occurred with the Groq API")]
    ELSE [network |-> TRUE, value |-> reply.value]

\* ------------------------------------------------- run_advanced_simulation
\* raised: an exception left the function.  calls: the helpers it ran.
run_advanced_simulation(intersecting_wards_data, infra_type, key, reply) ==
    LET infra_type_lower == lower(infra_type)
        predictions == run_pytorch_predictions(intersecting_wards_data, infra_type_lower)
        context == _prepare_llm_context(intersecting_wards_data, predictions,
                                        infra_type_lower)
        prompt == _create_generative_prompt(context, infra_type_lower)
        answer == _query_llm_api(prompt, key, reply)
        llm_response == answer.value
        queried == {"run_pytorch_predictions", "_prepare_llm_context",
                    "_create_generative_prompt", "_query_llm_api"}
                   \cup (IF answer.network THEN {"network"} ELSE {})
    IN  IF intersecting_wards_data.wards = <<>>
        THEN [raised |-> FALSE, value |-> NoImpact, calls |-> {},
              predictions |-> base_predictions]
        ELSE IF context.raised
        THEN [raised |-> TRUE, value |-> JsonNumber,
              calls |-> {"run_pytorch_predictions", "_prepare_llm_context"},
              predictions |-> predictions]
        ELSE IF llm_response.kind = "number"
        THEN \* "status" in <a number> is a TypeError
             [raised |-> TRUE, value |-> JsonNumber, calls |-> queried,
              predictions |-> predictions]
        ELSE IF /\ llm_response.kind = "object"
                /\ "status" \in DOMAIN llm_response.obj
                /\ llm_response.obj.status = "success"
        THEN [raised |-> FALSE,
              value |-> Object(SetItem(llm_response.obj, "infrastructure_type",
                                       title(replace(infra_type, "_", " ")))),
              calls |-> queried, predictions |-> predictions]
        ELSE [raised |-> FALSE, value |-> llm_response, calls |-> queried,
              predictions |-> predictions]

\* -------------------------------------------------------- get_ai_suggestion
Reason(text, metric) == [text |-> text, metric |-> metric]

NotApplicable ==
    [ward_name |-> "N/A",
     reason |-> Reason("AI suggestions are not available for this infrastructure type.", Null),
     latitude |-> DefaultLatitude, longitude |-> DefaultLongitude]
ErrorSuggestion ==
    [ward_name |-> "Error",
     reason |-> Reason("An error occurred while generating the suggestion", Null),
     latitude |-> DefaultLatitude, longitude |-> DefaultLongitude]

Suggestion(target_ward, text, metric) ==
    [ward_name |-> target_ward.name, reason |-> Reason(text, metric),
     latitude |-> centroid(target_ward).y, longitude |-> centroid(target_ward).x]

\* The three cleaned columns of the per-request copy (lines 58-60).
clean_population(wards) ==
    [i \in 1..Len(wards) |-> fillna(to_numeric(wards[i].pop), 0)]
clean_gdp(wards) ==
    [i \in 1..Len(wards) |-> fillna(to_numeric(wards[i].gdp), 0)]
green_space_numeric_zero_fill(wards) ==
    [i \in 1..Len(wards) |-> fillna(to_numeric(rstrip_percent(wards[i].green)), 0)]
green_space_numeric(wards) ==
    [i \in 1..Len(wards) |->
        fillna(to_numeric(rstrip_percent(wards[i].green)), GreenSpaceFill)]

get_ai_suggestion(all_wards_gdf, infra_type) ==
    LET wards == all_wards_gdf.wards
        population == clean_population(wards)
        gdp == clean_gdp(wards)
        green == green_space_numeric(wards)
    IN  IF ~all_wards_gdf.cols
        THEN ErrorSuggestion          \* KeyError on the first column
        ELSE IF str_accessor_raises(Column(wards, "green"))
        THEN ErrorSuggestion          \* AttributeError on .str
        ELSE IF infra_type \in {school, hospital}
        THEN IF wards = <<>> THEN ErrorSuggestion  \* idxmax of nothing
             ELSE Suggestion(wards[idxmax(population)], "highest population",
                             population[idxmax(population)])
        ELSE IF infra_type = park
        THEN IF wards = <<>> THEN ErrorSuggestion
             ELSE Suggestion(wards[idxmin(green)], "lowest green space",
                             wards[idxmin(green)].green)
        ELSE IF infra_type = mall
        THEN IF wards = <<>> THEN ErrorSuggestion
             ELSE Suggestion(wards[idxmax(gdp)], "highest GDP", gdp[idxmax(gdp)])
        ELSE NotApplicable

\* ------------------------------------- the frame get_ai_suggestion writes to
\* A frame a handler works on, and whether its columns are the very columns
\* of the frame it was made from (a second name for it) or its own.
same_object(all_wards_gdf) == [frame |-> all_wards_gdf, shares |-> TRUE]

\* DataFrame.copy() (line 53) is deep by default: the copy owns its columns.
copy(all_wards_gdf) == [frame |-> all_wards_gdf, shares |-> FALSE]

\* The column assignments of lines 58-60 on the frame gdf, as far as they get:
\* a missing column raises before the first assignment (line 58), the .str
\* accessor raises after the first two (line 60).  The branches below them
\* assign nothing.
assign_cleaned_columns(gdf) ==
    LET wards == gdf.wards
        population == clean_population(wards)
        gdp == clean_gdp(wards)
        coerced == [i \in 1..Len(wards) |->
                      [wards[i] EXCEPT !.pop = population[i], !.gdp = gdp[i]]]
    IN  IF ~gdf.cols
        THEN gdf
        ELSE IF str_accessor_raises(Column(wards, "green"))
        THEN Frame(TRUE, coerced)
        ELSE [is_none |-> FALSE, cols |-> TRUE, wards |-> coerced,
              green_space_numeric |-> green_space_numeric(wards)]

\* The caller's frame once get_ai_suggestion has returned.
all_wards_gdf_after(all_wards_gdf) ==
    LET gdf == copy(all_wards_gdf)
    IN  IF gdf.shares THEN assign_cleaned_columns(gdf.frame) ELSE all_wards_gdf

\* ------------------------------------------------------- inputs of a run
\* The columns of n cells a file can give: all numbers (or null), or all
\* texts (or null).
Columns(n, numbers, texts) ==
    [1..n -> numbers \cup {Null}] \cup [1..n -> texts \cup {Null}]

FramesOf(n, pops, gdps, greens) ==
    { Frame(TRUE, [i \in 1..n |-> Ward(i, p[i], g[i], s[i])]) :
        p \in pops, g \in gdps, s \in greens }

\* Frames without the attribute columns; a file of no features is one of them.
BareFrames ==
    { Frame(FALSE, [i \in 1..n |-> Ward(i, Null, Null, Null)]) : n \in 0..MaxWards }

\* The files the server is started on.
ServerFrames ==
    BareFrames \cup
    UNION { FramesOf(n, Columns(n, {Num(1)}, {Bad}), Columns(n, {Num(1)}, {Bad}),
                     {[i \in 1..n |-> Pct(5)]}) :
            n \in 1..MaxWards }

\* The frames the recommender is run on: population or GDP populated, the
\* other one null, green space free.
Amounts == {1, 2}
AmountColumns(n) ==
    Columns(n, {Num(a) : a \in Amounts}, {Bad} \cup {Txt(a) : a \in Amounts})
NullColumn(n) == [i \in 1..n |-> Null]
GreenColumns(n) ==
    Columns(n, {Num(5)}, {Bad, Pct(5), Pct(100), Txt(50)})
SuggestFrames ==
    UNION { FramesOf(n, AmountColumns(n), {NullColumn(n)}, GreenColumns(n))
            \cup FramesOf(n, {NullColumn(n)}, AmountColumns(n), GreenColumns(n)) :
            n \in 1..MaxWards }

Malformed == [valid |-> FALSE, cells |-> {}]
Geometries ==
    {Malformed} \cup
    {[valid |-> TRUE, cells |-> c] : c \in (SUBSET (0..MaxWards)) \ {{}}}

SuggestLabels == {school, hospital, park, mall, metro, Park, road_ground}

Request(op, infra_type, geometry) ==
    [op |-> op, infrastructure_type |-> infra_type, geometry |-> geometry]
NoRequest == Request("none", <<>>, Malformed)
NoPredictions == [computed |-> FALSE, value |-> base_predictions]

\* ------------------------------------------------------------ HTTP replies
Reply(code, body) == [code |-> code, body |-> body]
HTTPException(status_code, detail) ==
    Reply(status_code, Object([detail |-> detail]))
InternalServerError ==
    Reply(500, Object([detail |-> Reason("Internal Server Error", Null)]))
NoResponse == Reply(0, Object(EmptyObject))

\* shape(request.geometry) raises on a payload that is no geometry
shape_never_raises(geometry) == FALSE
shape_raises(geometry) == ~geometry.valid

\* gdf[gdf.geometry.intersects(shape)]: the wards sharing a cell with the
\* shape, in the frame's order
intersecting_unmasked(gdf, geometry) == Frame(gdf.cols, gdf.wards)
intersecting(gdf, geometry) ==
    Frame(gdf.cols, SelectSeq(gdf.wards, LAMBDA w : w.cell \in geometry.cells))

\* ------------------------------------------------------------------ Init
Init ==
    /\ geodata_gdf = NoneGdf
    /\ startup = "pending"
    /\ GROQ_API_KEY \in BOOLEAN
    /\ request = NoRequest
    /\ llm_reply = NoReply
    /\ response = NoResponse
    /\ calls = {}
    /\ numeric_predictions = NoPredictions

\* ---------------------------------------------------------- startup_event
\* gpd.read_file raises: nothing is assigned.
StartupReadFails ==
    /\ startup = "pending"
    /\ startup' = "read_file_failed"
    /\ UNCHANGED <<geodata_gdf, GROQ_API_KEY, request, llm_reply, response,
                   calls, numeric_predictions>>

\* gpd.read_file returns and set_crs succeeds.
StartupLoads ==
    /\ startup = "pending"
    /\ \E gdf \in ServerFrames : geodata_gdf' = gdf
    /\ startup' = "loaded"
    /\ UNCHANGED <<GROQ_API_KEY, request, llm_reply, response, calls,
                   numeric_predictions>>

\* gpd.read_file returns and is assigned (line 42), then set_crs raises
\* (line 43): the except clause logs and leaves the assignment in place.
StartupSetCrsFails ==
    /\ startup = "pending"
    /\ \E gdf \in ServerFrames : geodata_gdf' = gdf
    /\ startup' = "set_crs_failed"
    /\ UNCHANGED <<GROQ_API_KEY, request, llm_reply, response, calls,
                   numeric_predictions>>

\* ------------------------------------------------------ get_wards_geojson
get_wards_geojson ==
    /\ startup # "pending"
    /\ request = NoRequest
    /\ request' = Request("wards", <<>>, Malformed)
    /\ IF geodata_gdf.is_none
       THEN /\ response' = HTTPException(503,
                 Reason("GeoJSON data is not available or failed to load.", Null))
            /\ calls' = {}
       ELSE /\ response' = Reply(200, Object([type |-> "FeatureCollection",
                                              features |-> geodata_gdf.wards]))
            /\ calls' = {"to_json"}
    /\ llm_reply' = NoReply
    /\ numeric_predictions' = NoPredictions
    /\ UNCHANGED <<geodata_gdf, startup, GROQ_API_KEY>>

\* -------------------------------------------- simulate_infrastructure_impact
simulate_infrastructure_impact(infra_type, geometry, reply) ==
    /\ startup # "pending"
    /\ request = NoRequest
    /\ \E result \in {run_advanced_simulation(intersecting(geodata_gdf, geometry),
                                              infra_type, GROQ_API_KEY, reply)} :
        /\ request' = Request("simulate", infra_type, geometry)
        /\ UNCHANGED <<geodata_gdf, startup, GROQ_API_KEY>>
        /\ IF geodata_gdf.is_none
           THEN /\ response' = HTTPException(503, Reason("Map data is not available.", Null))
                /\ calls' = {}
                /\ llm_reply' = NoReply
                /\ numeric_predictions' = NoPredictions
           ELSE IF shape_raises(geometry)
           THEN /\ response' = HTTPException(400, Reason("Invalid geometry provided", Null))
                /\ calls' = {"shape"}
                /\ llm_reply' = NoReply
                /\ numeric_predictions' = NoPredictions
           ELSE /\ response' = IF result.raised THEN InternalServerError
                               ELSE Reply(200, result.value)
                /\ calls' = {"shape", "intersects", "run_advanced_simulation"}
                            \cup result.calls
                /\ llm_reply' = IF "network" \in result.calls THEN reply ELSE NoReply
                /\ numeric_predictions' =
                     IF "run_pytorch_predictions" \in result.calls
                     THEN [computed |-> TRUE, value |-> result.predictions]
                     ELSE NoPredictions

\* ------------------------------------------------------- suggest_placement
suggest_placement(infra_type) ==
    /\ startup # "pending"
    /\ request = NoRequest
    /\ \E suggestion \in {get_ai_suggestion(geodata_gdf, infra_type)} :
        /\ request' = Request("suggest", infra_type, Malformed)
        /\ llm_reply' = NoReply
        /\ numeric_predictions' = NoPredictions
        /\ UNCHANGED <<startup, GROQ_API_KEY>>
        /\ IF geodata_gdf.is_none
           THEN /\ response' = HTTPException(503, Reason("Map data is not available.", Null))
                /\ calls' = {}
                /\ geodata_gdf' = geodata_gdf
           ELSE /\ geodata_gdf' = all_wards_gdf_after(geodata_gdf)
                /\ response' = IF suggestion.ward_name \in {"N/A", "Error"}
                               THEN HTTPException(404, suggestion.reason)
                               ELSE Reply(200, Object(suggestion))
                /\ calls' = {"get_ai_suggestion"}

\* ------------------------------------------------------------ health_check
health_check ==
    /\ startup # "pending"
    /\ request = NoRequest
    /\ request' = Request("health", <<>>, Malformed)
    /\ response' = Reply(200, Object([status |-> "ok"]))
    /\ calls' = {}
    /\ llm_reply' = NoReply
    /\ numeric_predictions' = NoPredictions
    /\ UNCHANGED <<geodata_gdf, startup, GROQ_API_KEY>>

\* The response is sent and the request ends: nothing a handler computed
\* outlives its request.
Deliver ==
    /\ request # NoRequest
    /\ request' = NoRequest
    /\ llm_reply' = NoReply
    /\ response' = NoResponse
    /\ calls' = {}
    /\ numeric_predictions' = NoPredictions
    /\ UNCHANGED <<geodata_gdf, startup, GROQ_API_KEY>>

\* Does this request get as far as sending the prompt to the service?
AsksService(infra_type, geometry) ==
    /\ ~geodata_gdf.is_none
    /\ ~shape_raises(geometry)
    /\ "network" \in run_advanced_simulation(intersecting(geodata_gdf, geometry),
                                             infra_type, GROQ_API_KEY, NoReply).calls

\* The service's reply is drawn only for a request that asks for one.
Simulate ==
    /\ request = NoRequest
    /\ \E infra_type \in Labels, geometry \in Geometries :
        \E reply \in IF AsksService(infra_type, geometry)
                     THEN ServiceReplies ELSE {NoReply} :
            simulate_infrastructure_impact(infra_type, geometry, reply)

Suggest ==
    /\ request = NoRequest
    /\ \E infra_type \in SuggestLabels : suggest_placement(infra_type)

Next ==
    \/ StartupReadFails
    \/ StartupLoads
    \/ StartupSetCrsFails
    \/ get_wards_geojson
    \/ Simulate
    \/ Suggest
    \/ health_check
    \/ Deliver

Spec == Init /\ [][Next]_vars

\* The recommender alone, on the richer frames.
InitSuggest ==
    /\ geodata_gdf \in SuggestFrames
    /\ startup = "loaded"
    /\ GROQ_API_KEY = FALSE
    /\ request = NoRequest
    /\ llm_reply = NoReply
    /\ response = NoResponse
    /\ calls = {}
    /\ numeric_predictions = NoPredictions

NextSuggest == Suggest \/ Deliver

SpecSuggest == InitSuggest /\ [][NextSuggest]_vars

\* ========================================================== the claims
Loaded == ~geodata_gdf.is_none
Served(op) == request.op = op
\* The wards the request's geometry shares a cell with.
Touched == {i \in 1..Len(geodata_gdf.wards) :
               geodata_gdf.wards[i].cell \in request.geometry.cells}
Downstream == {"intersects", "run_advanced_simulation", "run_pytorch_predictions",
               "_prepare_llm_context", "_create_generative_prompt",
               "_query_llm_api", "network"}
IsObject(body) == body.kind = "object"
IsErrorEnvelope(body) ==
    /\ IsObject(body)
    /\ DOMAIN body.obj = {"status", "message"}
    /\ body.obj.status = "error"
IsReport(body) ==
    /\ IsObject(body)
    /\ {"status", "infrastructure_type", "summary_narrative"} \subseteq DOMAIN body.obj
    /\ body.obj.status = "success"

\* C1: a Simulate request on loaded data whose constructible geometry touches
\* no ward is answered 200 with the no_impact payload, and the Narrative
\* Client and the external service are not invoked for it, whatever the
\* label and whether or not the credential is set.
C1_NoImpactSkipsNarrative ==
    (Served("simulate") /\ Loaded /\ request.geometry.valid /\ Touched = {})
    => /\ response = Reply(200, NoImpact)
       /\ "_query_llm_api" \notin calls
       /\ "network" \notin calls
       /\ llm_reply = NoReply

C1_Witness ==
    /\ Served("simulate") /\ Loaded /\ request.geometry.valid /\ Touched = {}
    /\ Len(geodata_gdf.wards) > 0
    /\ GROQ_API_KEY
    /\ request.infrastructure_type = ROAD_FLYOVER
    /\ response.code = 200

\* C2: a Simulate request on loaded data whose geometry payload cannot be made
\* into a shape is answered 400 and no downstream step runs for it: no
\* intersection, no numeric prediction, no context or prompt, no Narrative
\* Client call.
C2_MalformedGeometryIs400 ==
    (Served("simulate") /\ Loaded /\ ~request.geometry.valid)
    => /\ response.code = 400
       /\ calls \cap Downstream = {}
       /\ ~numeric_predictions.computed
       /\ llm_reply = NoReply

C2_Witness ==
    /\ Served("simulate") /\ Loaded /\ ~request.geometry.valid
    /\ Len(geodata_gdf.wards) > 0
    /\ GROQ_API_KEY
    /\ response.code = 400

\* C3 (as claimed): without a credential, every Simulate request on loaded
\* data whose valid geometry touches a ward is answered with the structured
\* value {status: "error", message} and no network attempt, whatever the
\* cells of the wards' population and GDP columns hold.
C3_NoCredentialIsErrorEnvelope ==
    (Served("simulate") /\ Loaded /\ geodata_gdf.cols /\ request.geometry.valid
        /\ Touched # {} /\ ~GROQ_API_KEY)
    => /\ response.code = 200
       /\ IsErrorEnvelope(response.body)
       /\ "network" \notin calls

\* C4 (as claimed): whenever the service's answer parses as JSON, the report
\* returned carries infrastructure_type equal to the request's label with
\* underscores replaced by spaces and title-cased.
C4_LabelIsNormalized ==
    (Served("simulate") /\ llm_reply.net = "ok" /\ llm_reply.json)
    => /\ response.code = 200
       /\ IsObject(response.body)
       /\ "infrastructure_type" \in DOMAIN response.body.obj
       /\ response.body.obj.infrastructure_type
            = title(replace(request.infrastructure_type, "_", " "))

\* C5 (as claimed): a Simulate request that passes the data-loaded check and
\* the geometry check ends in exactly one of: the no_impact payload, a
\* well-formed report, a well-formed error envelope, whatever the service
\* answers and whatever the cells of the population and GDP columns hold.
C5_ThreeOutcomes ==
    (Served("simulate") /\ Loaded /\ geodata_gdf.cols /\ request.geometry.valid)
    => /\ response.code = 200
       /\ \/ response.body = NoImpact
          \/ IsReport(response.body)
          \/ IsErrorEnvelope(response.body)

\* The nine named deltas, and each defined label's listed deltas (tenths).
PredictionKeys ==
    {"predicted_aqi_change", "predicted_heat_index_change",
     "predicted_urban_vegetation_change_percent",
     "predicted_traffic_density_change_percent",
     "predicted_light_vehicle_change_percent",
     "predicted_medium_vehicle_change_percent",
     "predicted_heavy_vehicle_change_percent",
     "predicted_total_population_change", "predicted_gdp_change_crore"}
FlyoverDeltas ==
    {<<"predicted_aqi_change", 85>>,
     <<"predicted_traffic_density_change_percent", 300>>,
     <<"predicted_medium_vehicle_change_percent", 250>>,
     <<"predicted_urban_vegetation_change_percent", -50>>,
     <<"predicted_heat_index_change", 5>>}
ListedDeltas(label) ==
    CASE label = road_ground ->
           {<<"predicted_aqi_change", 152>>,
            <<"predicted_traffic_density_change_percent", 550>>,
            <<"predicted_medium_vehicle_change_percent", 400>>,
            <<"predicted_heavy_vehicle_change_percent", 150>>,
            <<"predicted_urban_vegetation_change_percent", -180>>,
            <<"predicted_heat_index_change", 18>>}
      [] label = road_flyover -> FlyoverDeltas
      [] label = road_tunnel -> FlyoverDeltas
      [] label = mall ->
           {<<"predicted_aqi_change", 57>>,
            <<"predicted_traffic_density_change_percent", 425>>,
            <<"predicted_medium_vehicle_change_percent", 500>>,
            <<"predicted_gdp_change_crore", 125>>,
            <<"predicted_heat_index_change", 25>>,
            <<"predicted_urban_vegetation_change_percent", -50>>}
      [] label = school ->
           {<<"predicted_aqi_change", 15>>,
            <<"predicted_traffic_density_change_percent", 180>>,
            <<"predicted_medium_vehicle_change_percent", 200>>,
            <<"predicted_heat_index_change", 5>>,
            <<"predicted_total_population_change", 5000>>,
            <<"predicted_urban_vegetation_change_percent", -20>>}
      [] label = hospital ->
           {<<"predicted_aqi_change", 21>>,
            <<"predicted_traffic_density_change_percent", 150>>,
            <<"predicted_medium_vehicle_change_percent", 150>>,
            <<"predicted_heavy_vehicle_change_percent", 50>>,
            <<"predicted_heat_index_change", 8>>,
            <<"predicted_urban_vegetation_change_percent", -30>>}
      [] label = park ->
           {<<"predicted_aqi_change", -120>>,
            <<"predicted_traffic_density_change_percent", -80>>,
            <<"predicted_heat_index_change", -25>>,
            <<"predicted_urban_vegetation_change_percent", 250>>,
            <<"predicted_total_population_change", 500>>}
      [] OTHER -> {}
\* p is label's delta set: nine deltas, the listed ones as listed, the rest 0.
IsDeltaSetOf(p, label) ==
    /\ DOMAIN p = PredictionKeys
    /\ \A k \in PredictionKeys :
          IF \E d \in ListedDeltas(label) : d[1] = k
          THEN <<k, p[k]>> \in ListedDeltas(label)
          ELSE p[k] = 0

\* C6: run_pytorch_predictions depends on the label alone and returns exactly
\* the nine named deltas: all zero for a label outside the seven defined
\* ones, the label's fixed delta set (unlisted deltas zero) for a defined
\* one; and Simulate applies it to the lower-cased label, so labels that
\* differ only in case get the same deltas.
C6_PredictionTable ==
    /\ (Loaded /\ request = NoRequest)
       => \A label \in Labels :
             \A g \in {x \in Geometries : x.valid} :
                IsDeltaSetOf(run_pytorch_predictions(intersecting(geodata_gdf, g), label),
                             label)
    /\ (Served("simulate") /\ numeric_predictions.computed)
       => IsDeltaSetOf(numeric_predictions.value, lower(request.infrastructure_type))

C6_Witness ==
    /\ Served("simulate") /\ numeric_predictions.computed
    /\ request.infrastructure_type = ROAD_FLYOVER
    /\ numeric_predictions.value.predicted_aqi_change = 85
    /\ numeric_predictions.value.predicted_gdp_change_crore = 0
    /\ Cardinality(Touched) > 1

\* The recommender's rules, stated on the cells: population and GDP count as
\* their number (a number or the text of one) and as 0 otherwise; green space
\* counts as its number (a number, the text of one, or a percent text) and as
\* 100 otherwise.
AmountOf(cell) == IF cell.t \in {"num", "txt"} THEN cell.v ELSE 0
GreenMissing(cell) == cell.t \in {"null", "bad"}
GreenOf(cell) == IF GreenMissing(cell) THEN 100 ELSE cell.v
\* The first ward, in collection order, whose score no ward beats.
FirstBest(score(_), beats(_, _)) ==
    CHOOSE i \in 1..Len(geodata_gdf.wards) :
        /\ \A j \in 1..Len(geodata_gdf.wards) : ~beats(score(j), score(i))
        /\ \A j \in 1..(i - 1) : beats(score(i), score(j))
PopulationScore(i) == AmountOf(geodata_gdf.wards[i].pop)
GdpScore(i) == AmountOf(geodata_gdf.wards[i].gdp)
GreenScore(i) == GreenOf(geodata_gdf.wards[i].green)
More(a, b) == a > b
Less(a, b) == a < b
\* The ward the last response names.
Selected ==
    geodata_gdf.wards[CHOOSE i \in 1..Len(geodata_gdf.wards) :
                         geodata_gdf.wards[i].name = response.body.obj.ward_name]

\* C7 (as claimed): on every non-empty collection get_ai_suggestion names the
\* first ward of greatest population for school and hospital, of greatest GDP
\* for mall, of least green space for park, after the coercions.
C7_FirstBestWard ==
    (Served("suggest") /\ Loaded /\ Len(geodata_gdf.wards) > 0
        /\ request.infrastructure_type \in {school, hospital, mall, park})
    => /\ response.code = 200
       /\ response.body.obj.ward_name =
            geodata_gdf.wards[
              CASE request.infrastructure_type \in {school, hospital}
                     -> FirstBest(PopulationScore, More)
                [] request.infrastructure_type = mall -> FirstBest(GdpScore, More)
                [] OTHER -> FirstBest(GreenScore, Less)].name

\* C8 (as claimed): under the park rule a ward whose green-space cell is
\* missing or unparseable is selected only if every ward's cell is.
C8_MissingNeverSelected ==
    (Served("suggest") /\ request.infrastructure_type = park /\ response.code = 200)
    => (GreenMissing(Selected.green)
        => \A i \in 1..Len(geodata_gdf.wards) :
              GreenMissing(geodata_gdf.wards[i].green))

\* C8 (amended): under the park rule a ward whose green-space cell is missing
\* or unparseable is not selected when some ward of the collection has a
\* parseable green-space value below 100.
C8_MissingNotSelectedBelowFill ==
    (Served("suggest") /\ request.infrastructure_type = park /\ response.code = 200)
    => (GreenMissing(Selected.green)
        => ~\E i \in 1..Len(geodata_gdf.wards) :
               /\ ~GreenMissing(geodata_gdf.wards[i].green)
               /\ geodata_gdf.wards[i].green.v < 100)

C8_Witness ==
    /\ Served("suggest") /\ request.infrastructure_type = park /\ response.code = 200
    /\ Len(geodata_gdf.wards) > 1
    /\ GreenMissing(geodata_gdf.wards[1].green)
    /\ geodata_gdf.wards[2].green = Pct(5)
    /\ response.body.obj.ward_name = geodata_gdf.wards[2].name

\* C9 (as claimed): for a label that is none of school, hospital, park, mall
\* and any loaded collection, get_ai_suggestion returns the not-applicable
\* result, never the "Error" sentinel, and Suggest placement answers 404.
C9_UnknownTypeIsNotApplicable ==
    (Served("suggest") /\ Loaded
        /\ request.infrastructure_type \notin {school, hospital, park, mall})
    => response = HTTPException(404, NotApplicable.reason)

\* C10 (as claimed): if a step of the startup load fails, the data store is
\* left unpopulated and List wards, Simulate and Suggest placement answer 503
\* without other work, while the health check answers 200 {status: "ok"}.
C10_FailedStartupServes503 ==
    startup \in {"read_file_failed", "set_crs_failed"}
    => /\ geodata_gdf.is_none
       /\ (Served("wards") \/ Served("simulate") \/ Served("suggest"))
          => (response.code = 503 /\ calls = {})
       /\ Served("health") => response = Reply(200, Object([status |-> "ok"]))

\* ------------------------------------------------------------------- C11
\* C11: after a successful startup load no request changes the shared ward
\* collection: over every step taken while the load has succeeded (List
\* wards, Simulate, Suggest placement, health check, and the delivery of
\* their 200, 400, 404, 500 or error-envelope responses) the collection
\* keeps its wards, their order and every attribute value, and gains no
\* column; the coercion of get_ai_suggestion stays in its copy.
C11_CollectionNeverChanged ==
    [][startup = "loaded" => geodata_gdf' = geodata_gdf]_vars

\* A Suggest placement request served from a successfully loaded collection
\* that holds a population cell the coercion rewrites.
C11_Witness ==
    /\ startup = "loaded"
    /\ Served("suggest")
    /\ response.code = 200
    /\ \E i \in 1..Len(geodata_gdf.wards) : geodata_gdf.wards[i].pop = Bad

====
